---- MODULE Spec2Model ----
(***************************************************************************)
(* Model of ytani_tcpcmd/tcpcmd.py: the command server made of             *)
(*   - CmdServerHandler.handle  (one thread per accepted connection),      *)
(*   - CmdServerApp.cmd_worker  (the thread that runs the func_q's),       *)
(*   - main / CmdServerApp.main / CmdServerApp.end / CmdServer.end         *)
(*     (the main thread),                                                  *)
(* sharing the command queue CmdServerApp._cmdq and one reply queue        *)
(* CmdServerHandler._myq per connection.                                   *)
(*                                                                         *)
(* Sequences are 1-based: the Python args[0] is args[1] here.              *)
(***************************************************************************)
EXTENDS Integers, Sequences, FiniteSets, TLC

----------------------------------------------------------------------------
(* Bounds of the model *)

\* total number of lines the clients send
MaxInputs == 2

\* the client connections
Conns == {1, 2}

----------------------------------------------------------------------------
(* Cmd: constants and command table *)

RC_OK == "OK"
RC_NG == "NG"
RC_CONT == "CONTINUE"
RC_ACCEPT == "ACCEPT"

CMD_HELP == "help"
CMD_EXIT == "exit"
CMD_SHUTDOWN == "shutdown9999"

\* Python None as a handler or a return code
None == "None"

\* Python None as a message
NoMsg == <<>>

\* Python None as the reply queue of a queue entry
NoQ == 0

\* the queue size above which handle() answers 'server busy'
QSIZE_MAX == 100

\* Cmd._cmd, the command table
VARIABLE cmd

\* Cmd.__init__: self._cmd = {}
NoCmds == [n \in {} |-> [func_i |-> None, func_q |-> None, help |-> ""]]

\* Cmd.add_cmd: self._cmd[name] = {...}.  add_cmd stores the help text under
\* the key self.HELP_STR, which class Cmd does not define; the key is taken to
\* be the one cmd_i_help reads ('help').
add_cmd(tab, name, func_i, func_q, help_str) ==
  [n \in DOMAIN tab \cup {name} |->
     IF n = name
     THEN [func_i |-> func_i, func_q |-> func_q, help |-> help_str]
     ELSE tab[n]]

\* Cmd.__init__: the four add_cmd calls
CmdTab ==
  add_cmd(
    add_cmd(
      add_cmd(
        add_cmd(NoCmds, "sleep", "cmd_i_sleep", "cmd_q_sleep", "sleep"),
        CMD_HELP, "cmd_i_help", None, "command help"),
      CMD_EXIT, "cmd_i_exit", None, "disconnect"),
    CMD_SHUTDOWN, "cmd_i_shutdown", "cmd_q_shutdown", "shutdown server")

\* args[0] in self._cmd
Registered(name) == name \in DOMAIN cmd

\* the tokens float() accepts, with their value
FloatVal == [s \in {"1", "-1"} |-> IF s = "1" THEN 1 ELSE -1]

\* float(s) does not raise
IsFloat(s) == s \in DOMAIN FloatVal

\* time.sleep(v) raises ValueError for a negative v
SleepRaises(v) == v < 0

\* the lines a client sends, already split into args
Lines ==
  { <<"sleep", "1">>, <<"sleep", "-1">>, <<"sleep">>, <<CMD_HELP>>, <<CMD_EXIT>>,
    <<CMD_SHUTDOWN>>, <<CMD_SHUTDOWN, "-1">>, <<"foo", "bar">> }

\* Cmd.cmd_i_sleep
cmd_i_sleep(args) ==
  IF Len(args) >= 2 /\ IsFloat(args[2])
  THEN [rc |-> RC_CONT, msg |-> <<"sleep_sec", FloatVal[args[2]]>>]
  ELSE [rc |-> RC_NG, msg |-> <<args[1], "exception">>]

\* Cmd.cmd_i_help
cmd_i_help(args) ==
  IF Len(args) >= 2
  THEN IF Registered(args[2])
       THEN [rc |-> RC_OK, msg |-> <<cmd[args[2]].help>>]
       ELSE [rc |-> RC_NG, msg |-> <<args[2], "no such command">>]
  ELSE [rc |-> RC_OK, msg |-> <<"command list">>]

\* Cmd.cmd_i_exit
cmd_i_exit(args) == [rc |-> RC_OK, msg |-> NoMsg]

\* Cmd.cmd_i_shutdown
cmd_i_shutdown(args) ==
  IF Len(args) = 1
  THEN [rc |-> RC_ACCEPT, msg |-> <<"sleep_sec", 0>>]
  ELSE IF IsFloat(args[2])
       THEN [rc |-> RC_ACCEPT, msg |-> <<"sleep_sec", FloatVal[args[2]]>>]
       ELSE [rc |-> RC_NG, msg |-> <<args[1], "exception">>]

\* a func_i of a class derived from Cmd, 'def cmd_..(self, args)', that ends
\* in an exception instead of 'return rc, msg'
cmd_i_led(args) == [rc |-> None, msg |-> NoMsg]

\* the call self._cmd[args[0]]['func_i'](args)
FuncI(args) ==
  CASE cmd[args[1]].func_i = "cmd_i_sleep"    -> cmd_i_sleep(args)
    [] cmd[args[1]].func_i = "cmd_i_help"     -> cmd_i_help(args)
    [] cmd[args[1]].func_i = "cmd_i_exit"     -> cmd_i_exit(args)
    [] cmd[args[1]].func_i = "cmd_i_shutdown" -> cmd_i_shutdown(args)
    [] cmd[args[1]].func_i = "cmd_i_led"      -> cmd_i_led(args)

\* the call of func_i ends in an exception: the four handlers of class Cmd
\* catch theirs, cmd_i_led does not
FuncIRaises(args) == cmd[args[1]].func_i = "cmd_i_led"

\* Cmd.cmd_q_sleep: raised is TRUE when the call ends in an exception
cmd_q_sleep(args) ==
  IF Len(args) < 2 \/ ~IsFloat(args[2]) \/ SleepRaises(FloatVal[args[2]])
  THEN [raised |-> TRUE, rc |-> None, msg |-> NoMsg]
  ELSE [raised |-> FALSE, rc |-> RC_OK,
        msg |-> <<args[1], "sleep_sec", FloatVal[args[2]]>>]

\* Cmd.cmd_q_shutdown
cmd_q_shutdown(args) ==
  IF Len(args) = 1
  THEN [raised |-> FALSE, rc |-> RC_OK, msg |-> <<args[1], "sleep_sec", 0>>]
  ELSE IF ~IsFloat(args[2]) \/ SleepRaises(FloatVal[args[2]])
       THEN [raised |-> TRUE, rc |-> None, msg |-> NoMsg]
       ELSE [raised |-> FALSE, rc |-> RC_OK,
             msg |-> <<args[1], "sleep_sec", FloatVal[args[2]]>>]

\* the call self._cmd._cmd[args[0]]['func_q'](args)
FuncQ(args) ==
  CASE cmd[args[1]].func_q = "cmd_q_sleep"    -> cmd_q_sleep(args)
    [] cmd[args[1]].func_q = "cmd_q_shutdown" -> cmd_q_shutdown(args)

----------------------------------------------------------------------------
(* State *)

VARIABLES
  pc,          \* per connection: where its handler thread is
  h_active,    \* CmdServerHandler._active
  hasq,        \* CmdServerHandler._myq is not None
  myq,         \* content of CmdServerHandler._myq
  args,        \* handle(): args of the request being queued
  qsz,         \* handle(): the local qsize
  sub,         \* number of the connection's current queue entry (history)
  nrep,        \* number of replies sent for the connection's current request
  out,         \* the reply that the last step sent, if it sent one
  cmdq,        \* CmdServerApp._cmdq
  nput,        \* number of entries put on cmdq so far (history)
  wpc,         \* per worker thread: where it is
  wcur,        \* cmd_worker(): the entry (args, repq) it took
  maxExec,     \* highest entry number whose func_q was invoked (history)
  cmd_active,  \* Cmd._active
  svr_active,  \* CmdServer._active
  serving,     \* CmdServer.serve_forever is running
  mpc,         \* where the main thread is
  endCalls,    \* completed calls of CmdServerApp.end
  mark,        \* nput when end() was entered, 0 outside end() (history)
  nsent        \* lines sent by the clients so far
               \* (cmd, the command table Cmd._cmd, is declared above)

\* server.py, the variant of the server with a Worker thread class
VARIABLES
  Server_active,  \* Server._active
  Worker_active,  \* Worker._active
  Worker_cmdq,    \* Worker._cmdq
  is_shut_down,   \* socketserver.BaseServer.__is_shut_down (threading.Event)
  smain,          \* where the main thread of server() is
  wrk,            \* where the Worker thread is
  hpc,            \* per connection: where Handler.handle is
  nrecv           \* data received from the clients so far

svars == <<Server_active, Worker_active, Worker_cmdq, is_shut_down, smain, wrk, hpc, nrecv>>

\* the variables of tcpcmd.py
tvars == <<pc, h_active, hasq, myq, args, qsz, sub, nrep, out, cmdq, nput, wpc, wcur,
           maxExec, cmd_active, svr_active, serving, mpc, endCalls, mark, nsent, cmd>>

vars == <<tvars, svars>>

hvars == <<pc, h_active, hasq, args, qsz, sub, nrep>>
wvars == <<wpc, wcur, maxExec>>
mvars == <<cmd_active, svr_active, serving, mpc, endCalls, mark>>

\* a pool of two threads that run cmd_worker
TwoWorkerThreads == {"cmd_worker", "cmd_worker_2"}

\* CmdServerApp.__init__: the one thread that runs cmd_worker
WorkerThreads == {"cmd_worker"}

\* no entry
NoEntry == [args |-> <<>>, repq |-> NoQ, seq |-> 0]

\* a queue entry (args, repq), numbered in the order of the puts
Entry(a, q, n) == [args |-> a, repq |-> q, seq |-> n]

\* the put of a queue.LifoQueue
QueuePutFront(q, e) == <<e>> \o q

\* queue.Queue.put
QueuePut(q, e) == Append(q, e)

\* queue.Queue.get: the entry taken
QueueGet(q) == Head(q)

\* a get that leaves the entry in the queue
QueuePeek(q) == q

\* queue.Queue.get: what stays in the queue
QueueRest(q) == Tail(q)

\* one reply queue shared by all handlers (the one of connection 1)
PostShared(mq, q, rc, msg, n) ==
  IF q = NoQ THEN mq
  ELSE [mq EXCEPT ![1] = Append(@, [rc |-> rc, msg |-> msg, sub |-> n])]

\* repq.put((rc, msg)); n is the number of the entry answered
Post(mq, q, rc, msg, n) ==
  IF q = NoQ THEN mq
  ELSE [mq EXCEPT ![q] = Append(@, [rc |-> rc, msg |-> msg, sub |-> n])]

\* send_reply(rc, msg) on connection c; n is the number of the queue entry
\* whose result is relayed, 0 when the reply is the handler's own
Send(c, rc, msg, n) == [conn |-> c, rc |-> rc, msg |-> msg, sub |-> n]

\* the step sends nothing
NoOut == [conn |-> 0, rc |-> None, msg |-> NoMsg, sub |-> 0]

\* the interpreter lives until the main thread and every handler thread
\* (non-daemon, socketserver.ThreadingMixIn.daemon_threads is False) has
\* ended; the worker is a daemon thread and runs as long as the interpreter
ProcessAlive == mpc # "done" \/ \E c \in Conns : pc[c] \in {"recv", "qput", "wait"}

\* ServerApp.__init__ of server.py: Server.__init__ and Worker.__init__
ServerInit ==
  /\ Server_active = FALSE
  /\ Worker_active = FALSE
  /\ Worker_cmdq = <<>>
  /\ is_shut_down = FALSE
  /\ smain = "init"
  /\ wrk = "new"
  /\ hpc = [c \in Conns |-> "none"]
  /\ nrecv = 0

\* CmdServerApp.__init__ without the command table (the variables of server.py
\* have their values of ServerInit and keep them)
InitApp ==
  /\ ServerInit
  /\ pc = [c \in Conns |-> "none"]
  /\ h_active = [c \in Conns |-> FALSE]
  /\ hasq = [c \in Conns |-> TRUE]
  /\ myq = [c \in Conns |-> <<>>]
  /\ args = [c \in Conns |-> <<>>]
  /\ qsz = [c \in Conns |-> 0]
  /\ sub = [c \in Conns |-> 0]
  /\ nrep = [c \in Conns |-> 0]
  /\ out = NoOut
  /\ cmdq = <<>>
  /\ nput = 0
  /\ wpc = [w \in WorkerThreads |-> "new"]
  /\ wcur = [w \in WorkerThreads |-> NoEntry]
  /\ maxExec = 0
  /\ cmd_active = TRUE
  /\ svr_active = TRUE
  /\ serving = FALSE
  /\ mpc = "start"
  /\ endCalls = 0
  /\ mark = 0
  /\ nsent = 0

\* CmdServerApp.__init__, Cmd.__init__ included
Init == InitApp /\ cmd = CmdTab

----------------------------------------------------------------------------
(* CmdServerHandler *)

\* handle() with 'break' in place of 'continue' after the NG reply
UnknownCmdBreak(line, q) ==
  [step |-> "reply", rc |-> RC_NG, msg |-> <<line[1], "no such command .. ignored">>,
   active |-> FALSE, hasq |-> q]

\* handle(): args[0] is not a command: reply NG and 'continue'
UnknownCmd(line, q) ==
  [step |-> "reply", rc |-> RC_NG, msg |-> <<line[1], "no such command .. ignored">>,
   active |-> TRUE, hasq |-> q]

\* handle() that hands every registered command to the worker
DispatchAllQueued(line, q) ==
  IF ~Registered(line[1])
  THEN UnknownCmd(line, q)
  ELSE [step |-> "queue", rc |-> RC_CONT, msg |-> NoMsg, active |-> TRUE, hasq |-> q]

\* handle() without the check of func_i's return code (lines 416-418)
DispatchNoRcCheck(line, q) ==
  IF ~Registered(line[1])
  THEN UnknownCmd(line, q)
  ELSE LET d == cmd[line[1]]
           r == IF d.func_i # None THEN FuncI(line) ELSE [rc |-> None, msg |-> NoMsg]
           act == ~(d.func_i # None /\ line[1] = CMD_EXIT)
           q2 == IF d.func_i # None /\ r.rc = RC_ACCEPT THEN FALSE ELSE q
       IN  IF d.func_q = None
           THEN [step |-> "reply", rc |-> RC_OK,
                 msg |-> IF r.msg = NoMsg
                         THEN <<line[1], "func_q is None .. ignored">>
                         ELSE r.msg,
                 active |-> act, hasq |-> q2]
           ELSE [step |-> "queue", rc |-> r.rc, msg |-> r.msg,
                 active |-> act, hasq |-> q2]

\* handle(), from the received line to the queueing step: what the iteration
\* does (step), the reply it sends, and the new _active and _myq.  Nothing in
\* handle() catches an exception of func_i (step "raise"): it ends handle(),
\* finish() runs and socketserver closes the request.
Dispatch(line, q) ==
  IF ~Registered(line[1])
  THEN UnknownCmd(line, q)
  ELSE LET d == cmd[line[1]]
           r == IF d.func_i # None THEN FuncI(line) ELSE [rc |-> None, msg |-> NoMsg]
           act == ~(d.func_i # None /\ line[1] = CMD_EXIT)
           q2 == IF d.func_i # None /\ r.rc = RC_ACCEPT THEN FALSE ELSE q
       IN  IF d.func_i # None /\ FuncIRaises(line)
           THEN [step |-> "raise", rc |-> None, msg |-> NoMsg,
                 active |-> FALSE, hasq |-> q]
           ELSE
           IF d.func_i # None /\ r.rc \notin {RC_CONT, RC_ACCEPT}
           THEN [step |-> "reply", rc |-> r.rc, msg |-> r.msg,
                 active |-> act, hasq |-> q2]
           ELSE IF d.func_q = None
                THEN [step |-> "reply", rc |-> RC_OK,
                      msg |-> IF r.msg = NoMsg
                              THEN <<line[1], "func_q is None .. ignored">>
                              ELSE r.msg,
                      active |-> act, hasq |-> q2]
                ELSE [step |-> "queue", rc |-> r.rc, msg |-> r.msg,
                      active |-> act, hasq |-> q2]

\* a size check that lets one more entry in
QueueBusyLate(n) == n > QSIZE_MAX + 1

\* handle(): qsize > 100
QueueBusy(n) == n > QSIZE_MAX

\* a loop 'while True'
NextReadForever(active) == "recv"

\* handle(): 'continue', or the end of an iteration: the loop goes on while
\* self._active, else handle() returns and finish() runs
NextRead(active) == IF active THEN "recv" ELSE "closed"

\* socketserver: a connection is accepted and its handler thread starts
\* (__init__, setup)
Accept(c) ==
  /\ serving
  /\ pc[c] = "none"
  /\ pc' = [pc EXCEPT ![c] = "recv"]
  /\ h_active' = [h_active EXCEPT ![c] = TRUE]
  /\ hasq' = [hasq EXCEPT ![c] = TRUE]
  /\ myq' = [myq EXCEPT ![c] = <<>>]
  /\ out' = NoOut
  /\ UNCHANGED <<args, qsz, sub, nrep, cmdq, nput, nsent, cmd, svars>>
  /\ UNCHANGED <<wvars, mvars>>

\* handle(): a line arrives; one iteration up to its reply, or up to the
\* read of the queue size
RecvLine(c, line) ==
  /\ pc[c] = "recv"
  /\ nsent < MaxInputs
  /\ nsent' = nsent + 1
  /\ LET d == Dispatch(line, hasq[c])
     IN  /\ hasq' = [hasq EXCEPT ![c] = d.hasq]
         /\ sub' = [sub EXCEPT ![c] = 0]
         /\ h_active' = [h_active EXCEPT ![c] = d.active]
         /\ IF d.step = "reply"
            THEN /\ out' = Send(c, d.rc, d.msg, 0)
                 /\ nrep' = [nrep EXCEPT ![c] = 1]
                 /\ pc' = [pc EXCEPT ![c] = NextRead(d.active)]
                 /\ UNCHANGED <<args, qsz>>
            ELSE IF d.step = "raise"
            THEN /\ out' = NoOut
                 /\ nrep' = [nrep EXCEPT ![c] = 0]
                 /\ pc' = [pc EXCEPT ![c] = "closed"]
                 /\ UNCHANGED <<args, qsz>>
            ELSE /\ out' = NoOut
                 /\ nrep' = [nrep EXCEPT ![c] = 0]
                 /\ args' = [args EXCEPT ![c] = line]
                 /\ qsz' = [qsz EXCEPT ![c] = Len(cmdq)]
                 /\ pc' = [pc EXCEPT ![c] = "qput"]
  /\ UNCHANGED <<myq, cmdq, nput, cmd, svars>>
  /\ UNCHANGED <<wvars, mvars>>

\* a put that always hands over the handler's own reply queue
ReplyQueueOwn(c) == c

\* handle(): the self._myq that goes into the entry
ReplyQueue(c) == IF hasq[c] THEN c ELSE NoQ

\* handle(): the size check, then the put, then the reply of the ACCEPT path
QueueStep(c) ==
  /\ pc[c] = "qput"
  /\ IF QueueBusy(qsz[c])
     THEN /\ out' = Send(c, RC_NG, <<"qsize", qsz[c], "server busy">>, 0)
          /\ nrep' = [nrep EXCEPT ![c] = @ + 1]
          /\ pc' = [pc EXCEPT ![c] = NextRead(h_active[c])]
          /\ args' = [args EXCEPT ![c] = <<>>]
          /\ qsz' = [qsz EXCEPT ![c] = 0]
          /\ UNCHANGED <<cmdq, nput, sub>>
     ELSE /\ cmdq' = QueuePut(cmdq, Entry(args[c], ReplyQueue(c), nput + 1))
          /\ nput' = nput + 1
          /\ qsz' = [qsz EXCEPT ![c] = 0]
          /\ IF ~hasq[c]
             THEN /\ out' = Send(c, RC_OK, FuncI(args[c]).msg, 0)
                  /\ nrep' = [nrep EXCEPT ![c] = @ + 1]
                  /\ pc' = [pc EXCEPT ![c] = NextRead(h_active[c])]
                  /\ args' = [args EXCEPT ![c] = <<>>]
                  /\ sub' = sub
             ELSE /\ out' = NoOut
                  /\ nrep' = nrep
                  /\ pc' = [pc EXCEPT ![c] = "wait"]
                  /\ args' = args
                  /\ sub' = [sub EXCEPT ![c] = nput + 1]
  /\ UNCHANGED <<h_active, hasq, myq, nsent, cmd, svars>>
  /\ UNCHANGED <<wvars, mvars>>

\* handle(): rc, msg = self._myq.get(), then send_reply(rc, msg)
WaitReply(c) ==
  /\ pc[c] = "wait"
  /\ myq[c] # <<>>
  /\ myq' = [myq EXCEPT ![c] = Tail(@)]
  /\ out' = Send(c, Head(myq[c]).rc, Head(myq[c]).msg, Head(myq[c]).sub)
  /\ nrep' = [nrep EXCEPT ![c] = @ + 1]
  /\ pc' = [pc EXCEPT ![c] = NextRead(h_active[c])]
  /\ args' = [args EXCEPT ![c] = <<>>]
  /\ sub' = [sub EXCEPT ![c] = 0]
  /\ UNCHANGED <<h_active, hasq, qsz, cmdq, nput, nsent, cmd, svars>>
  /\ UNCHANGED <<wvars, mvars>>

\* a timeout branch that always continues
RecvTimeoutIgnore(c) ==
  /\ pc[c] = "recv"
  /\ out' = NoOut
  /\ UNCHANGED <<hvars, myq, cmdq, nput, nsent, cmd, svars>>
  /\ UNCHANGED <<wvars, mvars>>

\* handle(): socket.timeout in recv
RecvTimeout(c) ==
  /\ pc[c] = "recv"
  /\ IF svr_active
     THEN /\ out' = NoOut
          /\ UNCHANGED <<pc, h_active, nrep>>
     ELSE /\ out' = Send(c, RC_NG, <<"server is dead !">>, 0)
          /\ nrep' = [nrep EXCEPT ![c] = 1]
          /\ pc' = [pc EXCEPT ![c] = "closed"]
          /\ h_active' = [h_active EXCEPT ![c] = FALSE]
  /\ UNCHANGED <<hasq, myq, args, qsz, sub, cmdq, nput, nsent, cmd, svars>>
  /\ UNCHANGED <<wvars, mvars>>

\* the ways a read ends the loop: "eof" (zero length or EOF byte, no reply),
\* "error" (another exception in recv), "undecodable" (UnicodeDecodeError),
\* "blank" (no token); the last three reply NG
EndKinds == {"eof", "error", "undecodable", "blank"}

\* handle(): the breaks of the loop before the command check, then finish()
RecvEnd(c, kind) ==
  /\ pc[c] = "recv"
  /\ out' = IF kind = "eof" THEN NoOut ELSE Send(c, RC_NG, <<kind>>, 0)
  /\ nrep' = [nrep EXCEPT ![c] = IF kind = "eof" THEN 0 ELSE 1]
  /\ pc' = [pc EXCEPT ![c] = "closed"]
  /\ h_active' = [h_active EXCEPT ![c] = FALSE]
  /\ UNCHANGED <<hasq, myq, args, qsz, sub, cmdq, nput, nsent, cmd, svars>>
  /\ UNCHANGED <<wvars, mvars>>

----------------------------------------------------------------------------
(* CmdServerApp.cmd_worker *)

\* cmd_worker(): func_q is called for the entry
CallsFuncQ(a) == Registered(a[1]) /\ cmd[a[1]].func_q # None

\* cmd_worker(): the (rc, msg) of one iteration, or the exception of func_q
WorkerResult(a) ==
  IF Registered(a[1])
  THEN IF cmd[a[1]].func_q # None
       THEN FuncQ(a)
       ELSE [raised |-> FALSE, rc |-> RC_NG, msg |-> <<a[1], "no such func_q .. ignored">>]
  ELSE [raised |-> FALSE, rc |-> RC_NG, msg |-> <<a[1], "no such command .. ignored">>]

\* cmd_worker(): what the thread does after func_q raised; nothing catches
\* the exception, the thread ends
AfterRaise == "crashed"

\* cmd_worker(): args, repq = self._cmdq.get(), up to the call of func_q
WorkerGet(w) ==
  /\ ProcessAlive
  /\ wpc[w] = "get"
  /\ cmdq # <<>>
  /\ wcur' = [wcur EXCEPT ![w] = QueueGet(cmdq)]
  /\ cmdq' = QueueRest(cmdq)
  /\ wpc' = [wpc EXCEPT ![w] = "exec"]
  /\ maxExec' = IF CallsFuncQ(QueueGet(cmdq).args) /\ QueueGet(cmdq).seq > maxExec
                THEN QueueGet(cmdq).seq ELSE maxExec
  /\ out' = NoOut
  /\ UNCHANGED <<hvars, myq, nput, nsent, cmd, svars, mvars>>

\* cmd_worker(): func_q returns or raises; the reply is put; shutdown check
WorkerReturn(w) ==
  /\ ProcessAlive
  /\ wpc[w] = "exec"
  /\ LET r == WorkerResult(wcur[w].args)
     IN  IF r.raised
         THEN /\ wpc' = [wpc EXCEPT ![w] = AfterRaise]
              /\ myq' = IF AfterRaise = "crashed" THEN myq
                        ELSE Post(myq, wcur[w].repq, RC_NG, <<"exception">>, wcur[w].seq)
              /\ wcur' = wcur
         ELSE /\ myq' = Post(myq, wcur[w].repq, r.rc, r.msg, wcur[w].seq)
              /\ wpc' = [wpc EXCEPT ![w] =
                           IF wcur[w].args[1] = CMD_SHUTDOWN THEN "stopping" ELSE "get"]
              /\ wcur' = IF wcur[w].args[1] = CMD_SHUTDOWN THEN wcur
                         ELSE [wcur EXCEPT ![w] = NoEntry]
  /\ out' = NoOut
  /\ UNCHANGED <<hvars, cmdq, nput, nsent, cmd, svars, maxExec, mvars>>

\* cmd_worker(): after the loop, self._cmd.stop_main()
WorkerStop(w) ==
  /\ ProcessAlive
  /\ wpc[w] = "stopping"
  /\ cmd_active' = FALSE
  /\ wpc' = [wpc EXCEPT ![w] = "done"]
  /\ out' = NoOut
  /\ UNCHANGED <<hvars, myq, cmdq, nput, nsent, cmd, svars, wcur, maxExec>>
  /\ UNCHANGED <<svr_active, serving, mpc, endCalls, mark>>

----------------------------------------------------------------------------
(* The main thread: main(), CmdServerApp.main, CmdServerApp.end *)

\* CmdServerApp.main: both threads are started
AppMain ==
  /\ mpc = "start"
  /\ serving' = TRUE
  /\ wpc' = [w \in WorkerThreads |-> "get"]
  /\ mpc' = "main"
  /\ out' = NoOut
  /\ UNCHANGED <<hvars, myq, cmdq, nput, nsent, cmd, svars, wcur, maxExec>>
  /\ UNCHANGED <<cmd_active, svr_active, endCalls, mark>>

\* Cmd.main: the loop sees _active False and returns; main() goes to app.end()
MainExit ==
  /\ mpc = "main"
  /\ ~cmd_active
  /\ mpc' = "end_check"
  /\ mark' = nput
  /\ out' = NoOut
  /\ UNCHANGED <<hvars, myq, cmdq, nput, nsent, cmd, svars, wvars>>
  /\ UNCHANGED <<cmd_active, svr_active, serving, endCalls>>

\* main(): an exception (KeyboardInterrupt) ends app.main(); finally: app.end()
Interrupt ==
  /\ mpc = "main"
  /\ cmd_active
  /\ mpc' = "end_check"
  /\ mark' = nput
  /\ out' = NoOut
  /\ UNCHANGED <<hvars, myq, cmdq, nput, nsent, cmd, svars, wvars>>
  /\ UNCHANGED <<cmd_active, svr_active, serving, endCalls>>

\* CmdServerApp.end: while not self._cmdq.empty()
EndCheck ==
  /\ mpc = "end_check"
  /\ mpc' = IF cmdq = <<>> THEN "svr_shutdown" ELSE "end_get"
  /\ out' = NoOut
  /\ UNCHANGED <<hvars, myq, cmdq, nput, nsent, cmd, svars, wvars>>
  /\ UNCHANGED <<cmd_active, svr_active, serving, endCalls, mark>>

\* CmdServerApp.end: args, repq = self._cmdq.get(); repq.put((NG, 'terminated'))
EndGet ==
  /\ mpc = "end_get"
  /\ cmdq # <<>>
  /\ cmdq' = QueueRest(cmdq)
  /\ myq' = Post(myq, QueueGet(cmdq).repq, RC_NG, <<"terminated">>, QueueGet(cmdq).seq)
  /\ mpc' = "end_check"
  /\ out' = NoOut
  /\ UNCHANGED <<hvars, nput, nsent, cmd, svars, wvars>>
  /\ UNCHANGED <<cmd_active, svr_active, serving, endCalls, mark>>

\* CmdServer.end: self.shutdown()
SvrShutdown ==
  /\ mpc = "svr_shutdown"
  /\ serving' = FALSE
  /\ mpc' = "svr_inactive"
  /\ out' = NoOut
  /\ UNCHANGED <<hvars, myq, cmdq, nput, nsent, cmd, svars, wvars>>
  /\ UNCHANGED <<cmd_active, svr_active, endCalls, mark>>

\* CmdServer.end: self._active = False; then Cmd.end, and end() returns
SvrInactive ==
  /\ mpc = "svr_inactive"
  /\ svr_active' = FALSE
  /\ endCalls' = endCalls + 1
  /\ mpc' = "done"
  /\ mark' = 0
  /\ out' = NoOut
  /\ UNCHANGED <<hvars, myq, cmdq, nput, nsent, cmd, svars, wvars>>
  /\ UNCHANGED <<cmd_active, serving>>

\* CmdServerApp.end is called a second time
EndAgain ==
  /\ mpc = "done"
  /\ endCalls = 1
  /\ mpc' = "end_check"
  /\ mark' = nput
  /\ out' = NoOut
  /\ UNCHANGED <<hvars, myq, cmdq, nput, nsent, cmd, svars, wvars>>
  /\ UNCHANGED <<cmd_active, svr_active, serving, endCalls>>

----------------------------------------------------------------------------
(* Specifications *)

Handler(c) ==
  \/ Accept(c)
  \/ \E line \in Lines : RecvLine(c, line)
  \/ QueueStep(c)
  \/ WaitReply(c)
  \/ RecvTimeout(c)
  \/ \E kind \in EndKinds : RecvEnd(c, kind)

Worker(w) ==
  \/ WorkerGet(w)
  \/ WorkerReturn(w)
  \/ WorkerStop(w)

MainRun ==
  \/ MainExit
  \/ Interrupt
  \/ EndCheck
  \/ EndGet
  \/ SvrShutdown
  \/ SvrInactive
  \/ EndAgain

Next ==
  \/ \E c \in Conns : Handler(c)
  \/ \E w \in WorkerThreads : Worker(w)
  \/ AppMain
  \/ MainRun

Spec == Init /\ [][Next]_vars

\* every thread that can take a step eventually takes one; a read that gets no
\* line ends in socket.timeout.  Nothing obliges a client to connect, to send
\* or to disconnect, nor the user to interrupt or to call end() again.
Fairness ==
  /\ \A c \in Conns : WF_vars(QueueStep(c)) /\ WF_vars(WaitReply(c)) /\ WF_vars(RecvTimeout(c))
  /\ \A w \in WorkerThreads : WF_vars(Worker(w))
  /\ WF_vars(AppMain \/ MainExit \/ EndCheck \/ EndGet \/ SvrShutdown \/ SvrInactive)

FairSpec == Init /\ [][Next]_vars /\ Fairness

\* only the reads are fair: a read that gets no line ends in socket.timeout
\* (the handler's socket timeout, DEF_HANDLE_TIMEOUT)
FairRead == Init /\ [][Next]_vars /\ \A c \in Conns : WF_vars(RecvTimeout(c))

\* A state with a saturated queue.  main() was interrupted and end() has run
\* (twice) on an empty queue; both handlers live on.  Connection 2 then sent
\* "sleep 1" and waits while the worker runs its func_q; connection 1 sent the
\* shutdown command (ACCEPT, so its _myq is None from then on) and
\* QSIZE_MAX - 1 times "sleep 1", each answered OK at once.
InitBusy ==
  /\ pc = [c \in Conns |-> IF c = 2 THEN "wait" ELSE "recv"]
  /\ h_active = [c \in Conns |-> TRUE]
  /\ hasq = [c \in Conns |-> c = 2]
  /\ myq = [c \in Conns |-> <<>>]
  /\ args = [c \in Conns |-> IF c = 2 THEN <<"sleep", "1">> ELSE <<>>]
  /\ qsz = [c \in Conns |-> 0]
  /\ sub = [c \in Conns |-> IF c = 2 THEN 1 ELSE 0]
  /\ nrep = [c \in Conns |-> IF c = 2 THEN 0 ELSE 1]
  /\ out = NoOut
  /\ cmdq = [i \in 1..QSIZE_MAX |->
               Entry(IF i = 1 THEN <<CMD_SHUTDOWN>> ELSE <<"sleep", "1">>, NoQ, i + 1)]
  /\ nput = QSIZE_MAX + 1
  /\ wpc = [w \in WorkerThreads |-> "exec"]
  /\ wcur = [w \in WorkerThreads |-> Entry(<<"sleep", "1">>, 2, 1)]
  /\ maxExec = 1
  /\ cmd_active = TRUE
  /\ svr_active = FALSE
  /\ serving = FALSE
  /\ mpc = "done"
  /\ endCalls = 2
  /\ mark = 0
  /\ nsent = 0
  /\ cmd = CmdTab
  /\ ServerInit

\* the steps that can be taken from there: the server accepts no connection
\* any more and the main thread has ended
NextBusy ==
  \/ \E c \in Conns :
        \/ \E line \in Lines : RecvLine(c, line)
        \/ QueueStep(c)
        \/ WaitReply(c)
        \/ RecvTimeout(c)
        \/ \E kind \in EndKinds : RecvEnd(c, kind)
  \/ \E w \in WorkerThreads : Worker(w)

SpecBusy == InitBusy /\ [][NextBusy]_vars

\* The registration phase: Cmd.__init__ (of class Cmd or of a class derived
\* from it) fills the command table with add_cmd before anything is started.
RegNames == {"sleep", CMD_HELP, "led"}
RegFuncI == {"cmd_i_sleep", "cmd_i_help"}
RegFuncQ == {"cmd_q_sleep", None}
RegHelp == {"sleep", "command help"}

\* Cmd.__init__ at self._cmd = {}
InitReg == InitApp /\ cmd = NoCmds

\* one call self.add_cmd(name, func_i, func_q, help_str)
AddCmd(name, func_i, func_q, help_str) ==
  /\ mpc = "start"
  /\ cmd' = add_cmd(cmd, name, func_i, func_q, help_str)
  /\ UNCHANGED <<hvars, wvars, mvars, myq, out, cmdq, nput, nsent, svars>>

NextReg ==
  \E name \in RegNames, func_i \in RegFuncI, func_q \in RegFuncQ, help_str \in RegHelp :
    AddCmd(name, func_i, func_q, help_str)

SpecReg == InitReg /\ [][NextReg]_vars

\* The server of a class derived from Cmd, whose __init__ registers one more
\* command: 'led', with the func_i cmd_i_led and no func_q.
InitDerived == InitApp /\ cmd = add_cmd(CmdTab, "led", "cmd_i_led", None, "led")

\* the lines a client of that server sends
LinesDerived == Lines \cup {<<"led">>}

NextDerived ==
  \/ \E c \in Conns : Handler(c)
  \/ \E c \in Conns : RecvLine(c, <<"led">>)
  \/ \E w \in WorkerThreads : Worker(w)
  \/ AppMain
  \/ MainRun

SpecDerived == InitDerived /\ [][NextDerived]_vars

----------------------------------------------------------------------------
(* Properties *)

\* a func_q is running in thread w
Executing(w) == wpc[w] = "exec" /\ CallsFuncQ(wcur[w].args)

\* thread w takes an entry and calls its func_q in this step
StartsExec(w) == wpc[w] = "get" /\ wpc'[w] = "exec" /\ CallsFuncQ(wcur'[w].args)

\* C1: the func_q's are invoked in the order in which their entries were put
\* on the command queue: every entry whose func_q is invoked was put later
\* than every entry whose func_q was invoked before.
C1_FIFO ==
  [][\A w \in WorkerThreads : StartsExec(w) => wcur'[w].seq > maxExec]_vars

\* the second entry put is executed after the first one was, while the main
\* thread is still in Cmd.main (nothing was drained)
C1_Witness ==
  \E w \in WorkerThreads :
    Executing(w) /\ wcur[w].seq = 2 /\ maxExec = 2 /\ mpc = "main" /\ wcur[w].repq # NoQ

\* C3: at most one func_q is running at any time.
C3_Serial == Cardinality({w \in WorkerThreads : Executing(w)}) <= 1

\* a func_q is running while the entry of another connection waits in the queue
C3_Witness ==
  \E w \in WorkerThreads :
    /\ Executing(w)
    /\ cmdq # <<>>
    /\ Head(cmdq).repq # NoQ
    /\ wcur[w].repq # NoQ
    /\ Head(cmdq).repq # wcur[w].repq

\* C4: a connection that does the queueing step with a queue size above
\* QSIZE_MAX replies NG 'server busy' in that step, puts nothing on the
\* command queue, and goes on reading.
C4_Busy ==
  [][\A c \in Conns :
       (pc[c] = "qput" /\ pc'[c] # "qput" /\ qsz[c] > QSIZE_MAX)
         => /\ out' = Send(c, RC_NG, <<"qsize", qsz[c], "server busy">>, 0)
            /\ cmdq' = cmdq
            /\ nput' = nput
            /\ pc'[c] = "recv"
            /\ h_active'[c]]_vars

\* a connection has just been told 'server busy' at size QSIZE_MAX + 1 and
\* reads on
C4_Witness ==
  \E c \in Conns :
    /\ out = Send(c, RC_NG, <<"qsize", QSIZE_MAX + 1, "server busy">>, 0)
    /\ pc[c] = "recv"
    /\ Len(cmdq) = QSIZE_MAX + 1

\* the result of the entry that connection c waits for
OwnResult(c) ==
  {[rc |-> RC_NG, msg |-> <<"terminated">>],
   [rc |-> FuncQ(args[c]).rc, msg |-> FuncQ(args[c]).msg]}

\* C5: the reply a connection relays after its wait is the result of its own
\* current queue entry: the entry's number is the one the connection put, and
\* the (rc, msg) is what func_q returns for its args, or the drain message.
C5_Correlated ==
  [][\A c \in Conns :
       (pc[c] = "wait" /\ pc'[c] # "wait")
         => /\ out'.conn = c
            /\ out'.sub = sub[c]
            /\ [rc |-> out'.rc, msg |-> out'.msg] \in OwnResult(c)]_vars

\* a connection relays the result of its entry while the other connection is
\* waiting for the result of another entry
C5_Witness ==
  \E c, d \in Conns :
    /\ c # d
    /\ out.conn = c
    /\ out.sub # 0
    /\ out.rc = RC_OK
    /\ pc[d] = "wait"
    /\ sub[d] # 0
    /\ sub[d] # out.sub

\* C8: a line whose first token is not a command is answered NG 'no such
\* command', nothing is put on the command queue, and the handler is back in
\* its read with its state unchanged, so the next line is handled as usual.
C8_Unknown ==
  [][\A c \in Conns : \A line \in Lines :
       (~Registered(line[1]) /\ RecvLine(c, line))
         => /\ out' = Send(c, RC_NG, <<line[1], "no such command .. ignored">>, 0)
            /\ nrep'[c] = 1
            /\ cmdq' = cmdq
            /\ pc'[c] = "recv"
            /\ h_active'[c]
            /\ hasq'[c] = hasq[c]
            /\ myq' = myq]_vars

\* the reply to "foo bar" has just been sent and the handler can take the
\* next line
C8_Witness ==
  \E c \in Conns :
    /\ out = Send(c, RC_NG, <<"foo", "no such command .. ignored">>, 0)
    /\ pc[c] = "recv"
    /\ h_active[c]
    /\ nsent < MaxInputs
    /\ ENABLED RecvLine(c, <<CMD_HELP>>)

\* thread w has left the loop of cmd_worker
WorkerEnded(w) == wpc[w] \in {"crashed", "stopping", "done"}

\* C9: the worker leaves its loop only after it has processed the shutdown
\* command; a func_q that raises does not end it.
C9_WorkerSurvives ==
  \A w \in WorkerThreads :
    WorkerEnded(w) => (wpc[w] # "crashed" /\ wcur[w].args[1] = CMD_SHUTDOWN)

\* the main thread is inside a call of CmdServerApp.end that follows a
\* completed one
InSecondEnd ==
  endCalls >= 1 /\ mpc \in {"end_check", "end_get", "svr_shutdown", "svr_inactive"}

\* C10: a second call of CmdServerApp.end changes nothing: none of its steps
\* changes a liveness flag, the command queue, a reply queue or a connection.
C10_Idempotent ==
  [][(InSecondEnd /\ mpc' # mpc)
       => /\ cmdq' = cmdq
          /\ myq' = myq
          /\ svr_active' = svr_active
          /\ serving' = serving
          /\ cmd_active' = cmd_active
          /\ pc' = pc
          /\ h_active' = h_active]_vars

\* C2: every connection that waits on its reply queue is delivered exactly
\* one result: its reply queue never holds more than one result, and the wait
\* always ends.
C2_ExactlyOne ==
  /\ [](\A c \in Conns : Len(myq[c]) <= 1)
  /\ \A c \in Conns : (pc[c] = "wait") ~> (pc[c] # "wait")

\* the main thread is in the drain loop of CmdServerApp.end
Draining == mpc \in {"end_check", "end_get"}

\* C6: a connection that waits on its reply queue while end() drains the
\* command queue is delivered a result (and only one); no entry that was in
\* the queue when end() was entered has its func_q called.
C6_RaceFreeDrain ==
  /\ [](\A c \in Conns : Len(myq[c]) <= 1)
  /\ \A c \in Conns : (Draining /\ pc[c] = "wait") ~> (pc[c] # "wait")
  /\ [][\A w \in WorkerThreads :
          (Draining /\ StartsExec(w)) => wcur'[w].seq > mark]_vars

\* connection c has just been answered OK for the shutdown command
ShutdownAccepted(c) == out = Send(c, RC_OK, <<"sleep_sec", 0>>, 0)

\* C7: the shutdown command without argument is answered OK by the queueing
\* step itself; from then on every other connection's wait ends and every
\* other connection ends up closed for good.
C7_Shutdown ==
  /\ [][\A c \in Conns :
          (pc[c] = "qput" /\ pc'[c] # "qput" /\ args[c] = <<CMD_SHUTDOWN>>)
            => (out' = Send(c, RC_OK, <<"sleep_sec", 0>>, 0) /\ pc'[c] = "recv")]_vars
  /\ \A c \in Conns :
       ShutdownAccepted(c)
         ~> [](\A d \in Conns \ {c} : pc[d] \in {"none", "closed"})

\* a command that has an immediate handler and no queued handler
ImmediateOnly(line) ==
  Registered(line[1]) /\ cmd[line[1]].func_i # None /\ cmd[line[1]].func_q = None

\* connection a waits on its reply queue while the worker runs its func_q
BlockedOnWorker(a) ==
  /\ pc[a] = "wait"
  /\ \E w \in WorkerThreads : Executing(w) /\ wcur[w].repq = a /\ wcur[w].seq = sub[a]

\* C11: while a connection is blocked on the result of its queued command,
\* another connection that is reading can be served a command that has only an
\* immediate handler, and the step that takes the line sends the reply to that
\* connection; the blocked connection stays blocked and the func_q keeps
\* running.
C11_OthersNotBlocked ==
  /\ [](\A a, b \in Conns :
          (a # b /\ BlockedOnWorker(a) /\ pc[b] = "recv" /\ nsent < MaxInputs)
            => ENABLED RecvLine(b, <<CMD_HELP>>))
  /\ [][\A a, b \in Conns : \A line \in Lines :
          (a # b /\ BlockedOnWorker(a) /\ ImmediateOnly(line) /\ RecvLine(b, line))
            => /\ out'.conn = b
               /\ out'.rc = FuncI(line).rc
               /\ nrep'[b] = 1
               /\ pc'[b] \in {"recv", "closed"}
               /\ BlockedOnWorker(a)'
               /\ cmdq' = cmdq]_vars

\* connection b has just been answered its help command while connection a is
\* still blocked on the result of its sleep
C11_Witness ==
  \E a, b \in Conns :
    /\ a # b
    /\ BlockedOnWorker(a)
    /\ args[a] = <<"sleep", "1">>
    /\ out = Send(b, RC_OK, <<"command list">>, 0)
    /\ pc[b] = "recv"

\* C12: a call of add_cmd never changes the descriptor of a name that is
\* already in the command table.
C12_Duplicate ==
  [][\A name \in DOMAIN cmd : name \in DOMAIN cmd' /\ cmd'[name] = cmd[name]]_vars

\* the phases of a stop: the server accepts no connection any more
AcceptStopped == ~serving

\* the drain loop of CmdServerApp.end has been entered
DrainStarted == mpc \in {"end_check", "end_get", "svr_shutdown", "svr_inactive", "done"}

\* the drain loop of CmdServerApp.end has been left
DrainDone == mpc \in {"svr_shutdown", "svr_inactive", "done"}

\* the worker is being stopped: it has left its loop after the shutdown command
WorkerStopping == \E w \in WorkerThreads : wpc[w] \in {"stopping", "done"}

\* no thread runs cmd_worker any more
WorkerStopped == \A w \in WorkerThreads : wpc[w] \in {"done", "crashed"}

\* the connections have been told to close (CmdServer._active is False)
ClosingStarted == ~svr_active

\* C13: a stop goes through its steps in order: the drain of the queue starts
\* only when the server has stopped accepting, the worker is stopped only when
\* the drain is over, and the connections are told to close only when the
\* worker has stopped.
C13_Ordered ==
  /\ DrainStarted => AcceptStopped
  /\ WorkerStopping => DrainDone
  /\ ClosingStarted => WorkerStopped

\* connection c does the queueing step for a request whose func_i returned rc,
\* with a queue size that is not above the limit
QueuesWith(c, rc) ==
  /\ pc[c] = "qput"
  /\ pc'[c] # "qput"
  /\ FuncI(args[c]).rc = rc
  /\ ~QueueBusy(qsz[c])

\* C14: a request whose func_i returned CONTINUE is put on the command queue
\* together with the connection's reply queue, the connection then waits
\* without replying, and what it sends after the wait is the result posted for
\* that entry - whatever the connection has handled before.
C14_Continue ==
  /\ [][\A c \in Conns :
          QueuesWith(c, RC_CONT)
            => /\ cmdq' = QueuePut(cmdq, Entry(args[c], c, nput + 1))
               /\ pc'[c] = "wait"
               /\ out' = NoOut]_vars
  /\ [][\A c \in Conns :
          (pc[c] = "wait" /\ pc'[c] # "wait")
            => (myq[c] # <<>> /\ out' = Send(c, Head(myq[c]).rc, Head(myq[c]).msg, sub[c]))]_vars

\* C15: a request whose func_i returned ACCEPT is put on the command queue
\* without reply queue and answered OK, with func_i's message, by the queueing
\* step itself; the connection reads on.  The step of the worker (or of the
\* drain) that finishes an entry without reply queue posts nothing and sends
\* nothing.
C15_Accept ==
  /\ [][\A c \in Conns :
          QueuesWith(c, RC_ACCEPT)
            => /\ cmdq' = QueuePut(cmdq, Entry(args[c], NoQ, nput + 1))
               /\ out' = Send(c, RC_OK, FuncI(args[c]).msg, 0)
               /\ pc'[c] = "recv"
               /\ myq' = myq]_vars
  /\ [][\A w \in WorkerThreads :
          (wpc[w] = "exec" /\ wpc'[w] # "exec" /\ wcur[w].repq = NoQ)
            => (myq' = myq /\ out' = NoOut)]_vars
  /\ [][(mpc = "end_get" /\ mpc' # mpc /\ QueueGet(cmdq).repq = NoQ)
          => (myq' = myq /\ out' = NoOut)]_vars
  /\ [](\A i \in 1..Len(cmdq) :
          FuncI(cmdq[i].args).rc = RC_ACCEPT => cmdq[i].repq = NoQ)

\* the worker has finished the func_q of an entry without reply queue, whose
\* connection was answered and reads on; no reply queue holds anything
C15_Witness ==
  \E w \in WorkerThreads : \E c \in Conns :
    /\ wpc[w] = "stopping"
    /\ wcur[w].args = <<CMD_SHUTDOWN>>
    /\ wcur[w].repq = NoQ
    /\ pc[c] = "recv"
    /\ ~hasq[c]
    /\ \A d \in Conns : myq[d] = <<>>

\* handle() does not queue a request for this line: the command has no
\* func_q, or its func_i returned neither CONTINUE nor ACCEPT
NotQueued(line) ==
  /\ Registered(line[1])
  /\ \/ cmd[line[1]].func_q = None
     \/ cmd[line[1]].func_i # None /\ FuncI(line).rc \notin {RC_CONT, RC_ACCEPT}

\* every entry that a step puts on the command queue is for a registered
\* command with a func_q whose func_i, if it has one, returned CONTINUE or
\* ACCEPT
PutOnlyQueueable ==
  [][Len(cmdq') > Len(cmdq)
       => LET a == cmdq'[Len(cmdq')].args
          IN  /\ Registered(a[1])
              /\ cmd[a[1]].func_q # None
              /\ cmd[a[1]].func_i # None => FuncI(a).rc \in {RC_CONT, RC_ACCEPT}]_vars

\* C16 as stated: entries are put only for queueable requests, and for every
\* other request the connection sends one reply, leaves the queue alone and
\* stays in its loop.
C16_LoopAlwaysContinues ==
  /\ PutOnlyQueueable
  /\ [][\A c \in Conns : \A line \in Lines :
          (NotQueued(line) /\ RecvLine(c, line))
            => /\ out'.conn = c
               /\ nrep'[c] = 1
               /\ cmdq' = cmdq
               /\ nput' = nput
               /\ pc'[c] = "recv"]_vars

\* C16, amended: entries are put only for queueable requests, and for every
\* other request the connection sends one reply and leaves the queue alone;
\* it then reads the next line, except after the exit command, which ends the
\* loop.
C16_QueueOnlyIf ==
  /\ PutOnlyQueueable
  /\ [][\A c \in Conns : \A line \in Lines :
          (NotQueued(line) /\ RecvLine(c, line))
            => /\ out'.conn = c
               /\ nrep'[c] = 1
               /\ cmdq' = cmdq
               /\ nput' = nput
               /\ pc'[c] = IF line[1] = CMD_EXIT THEN "closed" ELSE "recv"]_vars

\* after an entry was put, a connection has been answered NG for "sleep"
\* without argument and reads on; the queue holds what it held
C16_Witness ==
  \E c \in Conns :
    /\ out = Send(c, RC_NG, <<"sleep", "exception">>, 0)
    /\ pc[c] = "recv"
    /\ nput = 1
    /\ Len(cmdq) = 1

\* C17: the step that takes the exit command sends the one reply OK (without
\* message) and ends the handler; it puts nothing on the command queue and
\* leaves the reply queues, the other connections and the worker as they are.
\* A handler that has ended takes no step any more: it reads no line, sends
\* nothing, queues nothing.
C17_Exit ==
  /\ [][\A c \in Conns :
          RecvLine(c, <<CMD_EXIT>>)
            => /\ out' = Send(c, RC_OK, NoMsg, 0)
               /\ nrep'[c] = 1
               /\ pc'[c] = "closed"
               /\ ~h_active'[c]
               /\ cmdq' = cmdq /\ nput' = nput /\ myq' = myq
               /\ \A d \in Conns \ {c} :
                    pc'[d] = pc[d] /\ h_active'[d] = h_active[d] /\ hasq'[d] = hasq[d]
               /\ wpc' = wpc /\ wcur' = wcur /\ cmd_active' = cmd_active]_vars
  /\ [][\A c \in Conns : pc[c] = "closed" => (pc'[c] = "closed" /\ out'.conn # c)]_vars
  /\ [](\A c \in Conns : pc[c] = "closed" => ~ENABLED Handler(c))

\* a connection has just been answered OK for exit and is closed, while the
\* other connection is still blocked on the result of its queued command
C17_Witness ==
  \E c, d \in Conns :
    /\ c # d
    /\ out = Send(c, RC_OK, NoMsg, 0)
    /\ pc[c] = "closed"
    /\ BlockedOnWorker(d)

\* C18: a read that times out while CmdServer._active is true sends nothing and
\* the connection reads again; one that times out while it is false sends the
\* one reply NG 'server is dead !' and ends the handler.  So a connection that
\* is in its read once CmdServer._active is false does not stay there: the
\* flag stays false, the read can only end the handler or take a line, and no
\* connection is for ever in its read with the flag false.
C18_Timeout ==
  /\ [][\A c \in Conns :
          RecvTimeout(c)
            => IF svr_active
               THEN out' = NoOut /\ pc'[c] = "recv" /\ h_active'[c] /\ nrep' = nrep
               ELSE /\ out' = Send(c, RC_NG, <<"server is dead !">>, 0)
                    /\ nrep'[c] = 1
                    /\ pc'[c] = "closed"]_vars
  /\ [][\A c \in Conns :
          (~svr_active /\ pc[c] = "recv")
            => (~svr_active' /\ pc'[c] \in {"recv", "closed", "qput"})]_vars
  /\ \A c \in Conns : []<>~(~svr_active /\ pc[c] = "recv")

\* end() has completed and a connection that was reading has just been told
\* that the server is dead, and is closed
C18_Witness ==
  \E c \in Conns :
    /\ mpc = "done"
    /\ ~svr_active
    /\ out = Send(c, RC_NG, <<"server is dead !">>, 0)
    /\ pc[c] = "closed"

\* thread w holds an entry of the shutdown command
HoldsShutdown(w) == wcur[w].args # <<>> /\ wcur[w].args[1] = CMD_SHUTDOWN

\* C19: the worker's step that ends the func_q of a shutdown entry posts the
\* result (to the entry's reply queue, if it has one) and leaves the loop; the
\* worker's next step is stop_main, which clears Cmd._active; and once the
\* worker holds a shutdown entry it never takes another entry.
C19_ShutdownTerminal ==
  /\ [][\A w \in WorkerThreads :
          (wpc[w] = "exec" /\ wpc'[w] # "exec" /\ HoldsShutdown(w))
            => /\ wpc'[w] = "stopping"
               /\ myq' = Post(myq, wcur[w].repq, RC_OK,
                              <<CMD_SHUTDOWN, "sleep_sec",
                                IF Len(wcur[w].args) = 1 THEN 0
                                ELSE FloatVal[wcur[w].args[2]]>>,
                              wcur[w].seq)]_vars
  /\ [][\A w \in WorkerThreads :
          (wpc[w] = "stopping" /\ wpc'[w] # "stopping")
            => (wpc'[w] = "done" /\ ~cmd_active')]_vars
  /\ [][\A w \in WorkerThreads : HoldsShutdown(w) => wcur'[w] = wcur[w]]_vars

\* C20: a line whose func_i ends in an exception is answered NG, nothing is
\* put on the command queue, and the handler reads on.
C20_FuncIErrorCaught ==
  [][\A c \in Conns : \A line \in LinesDerived :
       (Registered(line[1]) /\ FuncIRaises(line) /\ RecvLine(c, line))
         => /\ out'.conn = c
            /\ out'.rc = RC_NG
            /\ cmdq' = cmdq
            /\ pc'[c] = "recv"
            /\ h_active'[c]]_vars

\* the numbers of the entries that are in the command queue
Seqs(q) == {q[i].seq : i \in 1..Len(q)}

\* thread w holds an entry it has taken from the command queue
Holds(w) == wcur[w].seq # 0

EndCompleted == endCalls >= 1

\* C22: once CmdServerApp.end has returned, the worker takes no entry and
\* calls no func_q any more, whatever started the stop.
C22_WorkerStoppedAfterEnd ==
  [][EndCompleted => \A w \in WorkerThreads : ~StartsExec(w)]_vars

\* C23: with connections that submit concurrently, the command queue never
\* holds more than QSIZE_MAX + 1 entries.
C23_DepthBounded == Len(cmdq) <= QSIZE_MAX + 1

\* the main thread is inside a call of CmdServerApp.end
InEnd == mpc \in {"end_check", "end_get", "svr_shutdown", "svr_inactive"}

\* the main thread is in the blocking get of the drain loop and the queue is
\* empty
DrainBlocked == mpc = "end_get" /\ cmdq = <<>>

\* C24: a call of CmdServerApp.end always returns: its blocking get never
\* finds the queue emptied by the worker, and the main thread always gets from
\* the drain loop to the return of the call.
C24_StopTerminates ==
  /\ [](~DrainBlocked)
  /\ InEnd ~> (mpc = "done")

\* the command queue is no longer served: the drain loop of CmdServerApp.end
\* has been left, or the worker has left its loop after the shutdown command
QueueClosed == DrainDone \/ WorkerStopping

\* no handler is inside an iteration of its loop: a line that is put on the
\* queue later arrives later
HandlersIdle == \A c \in Conns : pc[c] \in {"none", "recv", "closed"}

\* C25: once the drain loop of CmdServerApp.end has been left, or the worker
\* has left its loop after the shutdown command, a command that arrives from
\* then on is not put on the command queue (and so no connection starts to
\* wait on its reply queue): the number of puts stays what it is.
C25_NoPutAfterDrain ==
  \A n \in 0..MaxInputs :
    [](QueueClosed /\ HandlersIdle /\ nput = n => [](nput = n))

----------------------------------------------------------------------------
(* server.py: Server, Worker, Handler and server() *)

\* the interpreter lives until the main thread and every Handler thread
\* (non-daemon) has ended; the Worker is a daemon thread
ServerAlive == smain # "ended" \/ \E c \in Conns : hpc[c] \in {"loop", "recv"}

\* what a client sends
ServerData == {"led on"}

\* Server.serve_forever: self._active = True; self._worker.start()
ServeStart ==
  /\ smain = "init"
  /\ Server_active' = TRUE
  /\ wrk' = "started"
  /\ smain' = "starting"
  /\ UNCHANGED <<Worker_active, Worker_cmdq, is_shut_down, hpc, nrecv, tvars>>

\* Server.serve_forever: super().serve_forever(poll_interval) is entered
ServeForever ==
  /\ smain = "starting"
  /\ is_shut_down' = FALSE
  /\ smain' = "serving"
  /\ UNCHANGED <<Server_active, Worker_active, Worker_cmdq, wrk, hpc, nrecv, tvars>>

\* server(): an exception (KeyboardInterrupt) ends obj.main(); the 'finally' of
\* socketserver's serve_forever sets the event if its loop was running; then
\* finally: obj.end()
ServerInterrupt ==
  /\ smain \in {"starting", "serving"}
  /\ is_shut_down' = (smain = "serving")
  /\ smain' = "end"
  /\ UNCHANGED <<Server_active, Worker_active, Worker_cmdq, wrk, hpc, nrecv, tvars>>

\* Server.end: self._active = False
ServerEndInactive ==
  /\ smain = "end"
  /\ Server_active' = FALSE
  /\ smain' = "end_shutdown"
  /\ UNCHANGED <<Worker_active, Worker_cmdq, is_shut_down, wrk, hpc, nrecv, tvars>>

\* Server.end: self.shutdown() returns when the event is set
ServerEndShutdown ==
  /\ smain = "end_shutdown"
  /\ is_shut_down
  /\ smain' = "end_check"
  /\ UNCHANGED <<Server_active, Worker_active, Worker_cmdq, is_shut_down, wrk, hpc,
                 nrecv, tvars>>

\* Server.end: if self._worker._active: self._worker.end() up to its join;
\* else the end of Server.end
ServerEndCheck ==
  /\ smain = "end_check"
  /\ IF Worker_active
     THEN /\ Worker_active' = FALSE
          /\ smain' = "end_join"
     ELSE /\ Worker_active' = Worker_active
          /\ smain' = "ended"
  /\ UNCHANGED <<Server_active, Worker_cmdq, is_shut_down, wrk, hpc, nrecv, tvars>>

\* Worker.end: self.join() returns; the end of Server.end
ServerEndJoin ==
  /\ smain = "end_join"
  /\ wrk = "done"
  /\ smain' = "ended"
  /\ UNCHANGED <<Server_active, Worker_active, Worker_cmdq, is_shut_down, wrk, hpc,
                 nrecv, tvars>>

\* Worker.run: self._active = True
WorkerRunStart ==
  /\ ServerAlive
  /\ wrk = "started"
  /\ Worker_active' = TRUE
  /\ wrk' = "loop"
  /\ UNCHANGED <<Server_active, Worker_cmdq, is_shut_down, smain, hpc, nrecv, tvars>>

\* Worker.run: while self._active
WorkerLoop ==
  /\ ServerAlive
  /\ wrk = "loop"
  /\ wrk' = IF Worker_active THEN "recv" ELSE "done"
  /\ UNCHANGED <<Server_active, Worker_active, Worker_cmdq, is_shut_down, smain, hpc,
                 nrecv, tvars>>

\* Worker.run: cmd = self.recv(): a command, or '' after the timeout (then
\* sleep and continue)
WorkerRecv ==
  /\ ServerAlive
  /\ wrk = "recv"
  /\ IF Worker_cmdq # <<>>
     THEN /\ Worker_cmdq' = Tail(Worker_cmdq)
          /\ wrk' = "proc"
     ELSE /\ Worker_cmdq' = Worker_cmdq
          /\ wrk' = "loop"
  /\ UNCHANGED <<Server_active, Worker_active, is_shut_down, smain, hpc, nrecv, tvars>>

\* Worker.run: the command is processed (log, time.sleep(3))
WorkerProc ==
  /\ ServerAlive
  /\ wrk = "proc"
  /\ wrk' = "loop"
  /\ UNCHANGED <<Server_active, Worker_active, Worker_cmdq, is_shut_down, smain, hpc,
                 nrecv, tvars>>

\* socketserver: a connection is accepted, its Handler thread starts and
\* handle() writes '# Ready'
HandlerAccept(c) ==
  /\ smain = "serving"
  /\ hpc[c] = "none"
  /\ hpc' = [hpc EXCEPT ![c] = "loop"]
  /\ UNCHANGED <<Server_active, Worker_active, Worker_cmdq, is_shut_down, smain, wrk,
                 nrecv, tvars>>

\* Handler.handle: while self._svr._active
HandlerLoop(c) ==
  /\ hpc[c] = "loop"
  /\ hpc' = [hpc EXCEPT ![c] = IF Server_active THEN "recv" ELSE "closed"]
  /\ UNCHANGED <<Server_active, Worker_active, Worker_cmdq, is_shut_down, smain, wrk,
                 nrecv, tvars>>

\* Handler.handle: data arrives and is sent to the worker
HandlerData(c, data) ==
  /\ hpc[c] = "recv"
  /\ nrecv < MaxInputs
  /\ nrecv' = nrecv + 1
  /\ Worker_cmdq' = Append(Worker_cmdq, data)
  /\ hpc' = [hpc EXCEPT ![c] = "loop"]
  /\ UNCHANGED <<Server_active, Worker_active, is_shut_down, smain, wrk, tvars>>

\* the ways a read ends or skips an iteration: "reset" (ConnectionResetError,
\* return), "error" (another exception, break), "empty" (no printable
\* character, break), "undecodable" (UnicodeDecodeError, continue)
ServerEndKinds == {"reset", "error", "empty", "undecodable"}

\* Handler.handle: a read that sends nothing to the worker
HandlerEnd(c, kind) ==
  /\ hpc[c] = "recv"
  /\ hpc' = [hpc EXCEPT ![c] = IF kind = "undecodable" THEN "loop" ELSE "closed"]
  /\ UNCHANGED <<Server_active, Worker_active, Worker_cmdq, is_shut_down, smain, wrk,
                 nrecv, tvars>>

ServerMain ==
  \/ ServeStart
  \/ ServeForever
  \/ ServerInterrupt
  \/ ServerEndInactive
  \/ ServerEndShutdown
  \/ ServerEndCheck
  \/ ServerEndJoin

WorkerThread ==
  \/ WorkerRunStart
  \/ WorkerLoop
  \/ WorkerRecv
  \/ WorkerProc

ServerHandler(c) ==
  \/ HandlerAccept(c)
  \/ HandlerLoop(c)
  \/ \E data \in ServerData : HandlerData(c, data)
  \/ \E kind \in ServerEndKinds : HandlerEnd(c, kind)

NextServer ==
  \/ ServerMain
  \/ WorkerThread
  \/ \E c \in Conns : ServerHandler(c)

SpecServer == Init /\ [][NextServer]_vars

\* every thread that can take a step eventually takes one; nothing obliges
\* the user to interrupt, nor a client to connect, to send or to disconnect
FairServer ==
  /\ SpecServer
  /\ WF_vars(WorkerThread)
  /\ WF_vars(ServeStart \/ ServeForever \/ ServerEndInactive \/ ServerEndShutdown
               \/ ServerEndCheck \/ ServerEndJoin)
  /\ \A c \in Conns : WF_vars(HandlerLoop(c))

\* Server.end has returned (by its raise)
ServerEnded == smain = "ended"

\* C26 (server.py): once Server.end has run, the Worker thread takes no
\* command any more, and it leaves its run loop (unless the interpreter ends
\* first).
C26_WorkerLeaves ==
  /\ [][ServerEnded => ~(wrk = "recv" /\ wrk' = "proc")]_vars
  /\ ServerEnded ~> (wrk = "done" \/ ~ServerAlive)

====
